---- MODULE Spec2Model ----
(***************************************************************************)
(* Model of the Kusto ingest/query smoke-test client (src/main.go).        *)
(* main runs four stages in sequence: getKustoConnStr, getKustoClient,     *)
(* ingestData and getData.  The SDK and the service are the environment:   *)
(* every SDK call either succeeds or fails with some cause, the awaited    *)
(* channels deliver what the service decides.                              *)
(***************************************************************************)
EXTENDS Integers, Sequences, FiniteSets, TLC

VARIABLES pc, authType, kcsb, ret, panicValue, exit, created, closed,
          file, currentTime, ingestQuery, submitted, rowStream, rowIdx,
          log, ops

vars == <<pc, authType, kcsb, ret, panicValue, exit, created, closed,
          file, currentTime, ingestQuery, submitted, rowStream, rowIdx,
          log, ops>>

\* ---------------------------------------------------------------- bounds
\* Longest row stream the service delivers in the primary table.
MaxRows == 3

\* ------------------------------------------------------------- constants
BearerToken == 0
Interactive == 1
\* All values an AuthType (an int) is drawn from here: the two named ones
\* and one value outside the enumeration.
AuthTypes == {BearerToken, Interactive, 2}

\* Outcome of an SDK or OS call: Ok, or the cause of its failure.
Ok == "nil"
Causes == {"e1", "e2"}
Outcomes == {Ok} \cup Causes

\* Go error values: the nil error, and errors built by fmt.Errorf.
Nil == [msg |-> "nil", cause |-> "nil"]
Pending == [msg |-> "pending", cause |-> "pending"]
Errorf(msg, cause) == [msg |-> msg, cause |-> cause]
RuntimePanic == [msg |-> "runtime error: invalid memory address or nil pointer dereference", cause |-> "none"]

Stages == <<"connStr", "client", "ingest", "query">>
Handles == {"client", "ingestor", "dataset"}

\* ------------------------------------------------------------------ time
Instants == {"t0", "t1"}
Locations == {"UTC", "Local"}
Times == [instant : Instants, loc : Locations]
\* Wall-clock reading of an instant in a location (Local is UTC+01:00).
ClockText == [UTC   |-> [t0 |-> "2024-01-01T00:00:00", t1 |-> "2024-01-01T00:00:01"],
              Local |-> [t0 |-> "2024-01-01T01:00:00", t1 |-> "2024-01-01T01:00:01"]]
ZoneText == [UTC |-> "Z", Local |-> "+01:00"]
\* time.Time.UTC: same instant, location UTC.
UTC(t) == [t EXCEPT !.loc = "UTC"]
\* time.Time.Format(time.RFC3339): the reading in the time's own location
\* followed by its zone designator.
FormatRFC3339(t) == <<ClockText[t.loc][t.instant], ZoneText[t.loc]>>

\* ------------------------------------------------------------------ text
\* Text is a sequence of tokens; "," is a token of its own.
IngestPrefix == ".ingest inline into table ravpateTable <| "
\* fmt.Sprintf(`.ingest inline into table ravpateTable <| %s,Sql,Isgood`, ts)
SprintfIngest(ts) == <<IngestPrefix>> \o ts \o <<",", "Sql", ",", "Isgood">>
IngestQuery_LocalTime(now) == SprintfIngest(FormatRFC3339(now))

\* The text ingestData serializes for the time returned by time.Now().
IngestQuery(now) == SprintfIngest(FormatRFC3339(UTC(now)))

\* Comma-separated fields of a text (strings.Split on ",").
RECURSIVE SplitComma(_)
SplitComma(s) ==
  IF \A i \in 1..Len(s) : s[i] # ","
  THEN <<s>>
  ELSE LET k == CHOOSE i \in 1..Len(s) :
                  s[i] = "," /\ \A j \in 1..(i-1) : s[j] # ","
       IN <<SubSeq(s, 1, k-1)>> \o SplitComma(SubSeq(s, k+1, Len(s)))

\* ------------------------------------------------------------------ rows
Rows == {"r1", "r2"}
OkRow(r) == [err |-> Ok, row |-> r]
ErrRow(c) == [err |-> c, row |-> "none"]
RowResults == {OkRow(r) : r \in Rows} \cup {ErrRow("e1")}
RECURSIVE SeqsUpTo(_, _)
SeqsUpTo(S, n) ==
  IF n = 0 THEN {<<>>}
  ELSE LET P == SeqsUpTo(S, n-1)
       IN P \cup {Append(p, x) : p \in {q \in P : Len(q) = n-1}, x \in S}
RowStreams == SeqsUpTo(RowResults, MaxRows)

\* -------------------------------------------------------------- logging
Msg(s) == [t |-> "msg", v |-> s]
RowLine(r) == [t |-> "row", v |-> r]
Op(name, outcome) == [op |-> name, fail |-> outcome]

NoFile == [exists |-> FALSE, content |-> <<>>]
StaleFile == [exists |-> TRUE, content |-> <<"stale">>]
NoTime == [instant |-> "none", loc |-> "none"]

\* ------------------------------------------------------------- functions
\* AuthType.String
String(a) ==
  CASE a = BearerToken -> "BearerToken"
    [] a = Interactive -> "Interactive"
    [] OTHER -> "Unknown"

\* getAzBearerToken, given the outcomes of NewDeviceCodeCredential and
\* GetToken.
GetAzBearerToken(credOut, tokOut) ==
  IF credOut # Ok
  THEN [token |-> "nil", err |-> Errorf("failed to obtain a credential", credOut)]
  ELSE IF tokOut # Ok
  THEN [token |-> "nil", err |-> Errorf("failed to get a token", tokOut)]
  ELSE [token |-> "token", err |-> Nil]

GetKustoConnStr_AnyAuth(a, credOut, tokOut) ==
  IF a = Interactive
  THEN [kcsb |-> "WithDefaultAzureCredential", err |-> Nil]
  ELSE [kcsb |-> "WitAadUserToken", err |-> Nil]

\* getKustoConnStr: the builder and the error it returns.
GetKustoConnStr(a, credOut, tokOut) ==
  CASE a = BearerToken ->
         LET r == GetAzBearerToken(credOut, tokOut)
         IN IF r.err # Nil
            THEN [kcsb |-> "nil", err |-> r.err]
            ELSE [kcsb |-> "WitAadUserToken", err |-> Nil]
    [] a = Interactive ->
         [kcsb |-> "WithDefaultAzureCredential", err |-> Nil]
    [] OTHER ->
         [kcsb |-> "nil", err |-> Errorf("invalid auth type", "none")]

\* The SDK calls getKustoConnStr makes for an auth type.
ConnStrOps(a, credOut, tokOut) ==
  IF a # BearerToken THEN <<>>
  ELSE IF credOut # Ok THEN <<Op("NewDeviceCodeCredential", credOut)>>
  ELSE <<Op("NewDeviceCodeCredential", Ok), Op("GetToken", tokOut)>>

MainCheck_NoAbort(e, next) == next

MainCheck_LastUnchecked(e, next) == IF e # Nil /\ next # "done" THEN "panic" ELSE next

\* main's `if err != nil { panic(err) }`: where main goes after a stage.
MainCheck(e, next) == IF e # Nil THEN "panic" ELSE next

RunDeferredClose_Missing(h) == closed

\* A deferred Close of handle h running at function exit.
RunDeferredClose(h) == [closed EXCEPT ![h] = @ + 1]

WaitError_Swallowed(w) == Nil

\* ingestData's result for the value received from status.Wait.
WaitError(w) == IF w # Ok THEN Errorf("error waiting for ingest", w) ELSE Nil

\* ------------------------------------------------------------------ init
Init ==
  /\ pc = "main"
  /\ authType \in AuthTypes
  /\ kcsb = "nil"
  /\ ret = [s \in {"connStr", "client", "ingest", "query"} |-> Pending]
  /\ panicValue = Nil
  /\ exit = "running"
  /\ created = [h \in Handles |-> FALSE]
  /\ closed = [h \in Handles |-> 0]
  /\ file \in {NoFile, StaleFile}
  /\ currentTime = NoTime
  /\ ingestQuery = <<>>
  /\ submitted = <<>>
  /\ rowStream = <<>>
  /\ rowIdx = 0
  /\ log = <<>>
  /\ ops = <<>>

\* --------------------------------------------------------------- actions
\* main, lines 45-52: log the auth type, build the connection string.
MainGetKustoConnStr ==
  /\ pc = "main"
  /\ \E credOut \in Outcomes, tokOut \in Outcomes :
       /\ (authType # BearerToken) => (credOut = Ok /\ tokOut = Ok)
       /\ (credOut # Ok) => (tokOut = Ok)
       /\ LET r == GetKustoConnStr(authType, credOut, tokOut)
          IN /\ kcsb' = r.kcsb
             /\ ret' = [ret EXCEPT !.connStr = r.err]
             /\ panicValue' = r.err
             /\ pc' = MainCheck(r.err, "getKustoClient")
       /\ ops' = ops \o ConnStrOps(authType, credOut, tokOut)
  /\ log' = Append(log, Msg(String(authType)))
  /\ UNCHANGED <<authType, exit, created, closed, file, currentTime,
                 ingestQuery, submitted, rowStream, rowIdx>>

\* main, lines 54-59 and getKustoClient: construct the query client and
\* defer its Close.
MainGetKustoClient ==
  /\ pc = "getKustoClient"
  /\ \E out \in Outcomes :
       LET e == IF out # Ok THEN Errorf("error creating kusto client", out) ELSE Nil
       IN /\ ret' = [ret EXCEPT !.client = e]
          /\ panicValue' = e
          /\ created' = [created EXCEPT !.client = (out = Ok)]
          /\ pc' = MainCheck(e, "ingestData")
          /\ ops' = Append(ops, Op("azkustodata.New", out))
  /\ UNCHANGED <<authType, kcsb, exit, closed, file, currentTime,
                 ingestQuery, submitted, rowStream, rowIdx, log>>

\* main line 62 and ingestData lines 124-132: construct the ingestor and
\* defer its Close.
IngestNew ==
  /\ pc = "ingestData"
  /\ log' = Append(log, Msg("Ingesting data..."))
  /\ \E out \in Outcomes :
       /\ ops' = Append(ops, Op("azkustoingest.New", out))
       /\ IF out # Ok
          THEN /\ ret' = [ret EXCEPT !.ingest = Errorf("error creating ingestor", out)]
               /\ pc' = "ingestReturned"
               /\ UNCHANGED created
          ELSE /\ created' = [created EXCEPT !.ingestor = TRUE]
               /\ pc' = "ingestWrite"
               /\ UNCHANGED ret
  /\ UNCHANGED <<authType, kcsb, panicValue, exit, closed, file, currentTime,
                 ingestQuery, submitted, rowStream, rowIdx>>

\* ingestData lines 135-147: take the time, serialize the record and write
\* it to ingest.kql.  The result of os.WriteFile is discarded.  A failed
\* write leaves the file as it was or leaves it truncated.
IngestWrite ==
  /\ pc = "ingestWrite"
  /\ \E now \in Times, out \in Outcomes, truncated \in BOOLEAN :
       /\ (out = Ok) => ~truncated
       /\ currentTime' = UTC(now)
       /\ ingestQuery' = IngestQuery(now)
       /\ file' = IF out = Ok
                  THEN [exists |-> TRUE, content |-> IngestQuery(now)]
                  ELSE IF truncated THEN [exists |-> TRUE, content |-> <<>>]
                  ELSE file
       /\ ops' = Append(ops, Op("os.WriteFile", out))
       /\ log' = log \o <<Msg("Writing ingest query to ingest.kql..."),
                          [t |-> "query", v |-> IngestQuery(now)],
                          Msg("Running ingest query now...")>>
  /\ pc' = "ingestFromFile"
  /\ UNCHANGED <<authType, kcsb, ret, panicValue, exit, created, closed,
                 submitted, rowStream, rowIdx>>

\* ingestData lines 151-160: submit ./ingest.kql with DeleteSource,
\* FlushImmediately and ReportResultToTable.  The SDK reads the file and
\* uploads it, then deletes the local source; a submission can fail before
\* or after the upload.  A missing file always fails.
IngestFromFile ==
  /\ pc = "ingestFromFile"
  /\ \E out \in Outcomes, uploaded \in BOOLEAN :
       /\ ~file.exists => (out # Ok /\ ~uploaded)
       /\ (out = Ok) => uploaded
       /\ ops' = Append(ops, Op("FromFile", out))
       /\ submitted' = IF uploaded THEN file.content ELSE submitted
       /\ file' = IF uploaded THEN NoFile ELSE file
       /\ IF out # Ok
          THEN /\ ret' = [ret EXCEPT !.ingest = Errorf("error ingesting data", out)]
               /\ closed' = RunDeferredClose("ingestor")
               /\ pc' = "ingestReturned"
          ELSE /\ pc' = "ingestWait"
               /\ UNCHANGED <<ret, closed>>
  /\ UNCHANGED <<authType, kcsb, panicValue, exit, created, currentTime,
                 ingestQuery, rowStream, rowIdx, log>>

\* ingestData lines 162-167: receive the terminal status and return.
IngestWait ==
  /\ pc = "ingestWait"
  /\ \E out \in Outcomes :
       /\ ops' = Append(ops, Op("status.Wait", out))
       /\ ret' = [ret EXCEPT !.ingest = WaitError(out)]
  /\ closed' = RunDeferredClose("ingestor")
  /\ pc' = "ingestReturned"
  /\ UNCHANGED <<authType, kcsb, panicValue, exit, created, file, currentTime,
                 ingestQuery, submitted, rowStream, rowIdx, log>>

\* main lines 63-68: check ingestData's result, then announce the query.
MainAfterIngest ==
  /\ pc = "ingestReturned"
  /\ panicValue' = ret.ingest
  /\ pc' = MainCheck(ret.ingest, "getData")
  /\ log' = IF pc' = "getData" THEN Append(log, Msg("Getting data...")) ELSE log
  /\ UNCHANGED <<authType, kcsb, ret, exit, created, closed, file, currentTime,
                 ingestQuery, submitted, rowStream, rowIdx, ops>>

RowError_Skipped(r) == Nil

\* getData's result for a row result received from the row stream.
RowError(r) == IF r.err # Ok THEN Errorf("error getting row result", r.err) ELSE Nil

NilTableCall_Blocks == "blocked"

\* Where control goes when the table channel is closed without a table: the
\* receive yields the zero TableResult and calling Err() on it panics.
NilTableCall == "panic"

\* getData lines 172-179: submit the query and defer the dataset's Close.
GetDataQuery ==
  /\ pc = "getData"
  /\ \E out \in Outcomes :
       /\ ops' = Append(ops, Op("IterativeQuery", out))
       /\ IF out # Ok
          THEN /\ ret' = [ret EXCEPT !.query = Errorf("error querying dataset", out)]
               /\ pc' = "getDataReturned"
               /\ UNCHANGED created
          ELSE /\ created' = [created EXCEPT !.dataset = TRUE]
               /\ pc' = "getDataTables"
               /\ UNCHANGED ret
  /\ UNCHANGED <<authType, kcsb, panicValue, exit, closed, file, currentTime,
                 ingestQuery, submitted, rowStream, rowIdx, log>>

\* getData lines 181-189: receive the first table.  The service delivers a
\* table, a table-level error, or closes the channel without a table.
GetDataTables ==
  /\ pc = "getDataTables"
  /\ \/ \E stream \in RowStreams :
          /\ ops' = Append(ops, Op("Tables", Ok))
          /\ rowStream' = stream
          /\ log' = log \o <<Msg("Results:"), Msg("")>>
          /\ pc' = "getDataRows"
          /\ UNCHANGED <<ret, closed, panicValue>>
     \/ \E c \in Causes :
          /\ ops' = Append(ops, Op("Tables", c))
          /\ ret' = [ret EXCEPT !.query = Errorf("error getting primary result", c)]
          /\ closed' = RunDeferredClose("dataset")
          /\ pc' = "getDataReturned"
          /\ UNCHANGED <<rowStream, log, panicValue>>
     \/ /\ ops' = Append(ops, Op("Tables", "closed"))
        /\ panicValue' = RuntimePanic
        /\ closed' = RunDeferredClose("dataset")
        /\ pc' = NilTableCall
        /\ UNCHANGED <<ret, rowStream, log>>
  /\ UNCHANGED <<authType, kcsb, exit, created, file, currentTime,
                 ingestQuery, submitted, rowIdx>>

\* getData lines 190-199: one iteration of the range loop, or its end.
GetDataRow ==
  /\ pc = "getDataRows"
  /\ IF rowIdx = Len(rowStream)
     THEN /\ ret' = [ret EXCEPT !.query = Nil]
          /\ closed' = RunDeferredClose("dataset")
          /\ pc' = "getDataReturned"
          /\ UNCHANGED <<rowIdx, log, ops>>
     ELSE LET r == rowStream[rowIdx + 1]
          IN /\ rowIdx' = rowIdx + 1
             /\ ops' = Append(ops, Op("Rows", r.err))
             /\ IF RowError(r) # Nil
                THEN /\ ret' = [ret EXCEPT !.query = RowError(r)]
                     /\ closed' = RunDeferredClose("dataset")
                     /\ pc' = "getDataReturned"
                     /\ UNCHANGED log
                ELSE /\ log' = Append(log, RowLine(r.row))
                     /\ UNCHANGED <<ret, closed, pc>>
  /\ UNCHANGED <<authType, kcsb, panicValue, exit, created, file, currentTime,
                 ingestQuery, submitted, rowStream>>

\* main lines 69-74: check getData's result; log "Done." and return, which
\* runs the deferred client.Close.
MainAfterGetData ==
  /\ pc = "getDataReturned"
  /\ panicValue' = ret.query
  /\ pc' = MainCheck(ret.query, "done")
  /\ IF pc' = "done"
     THEN /\ log' = Append(log, Msg("Done."))
          /\ closed' = RunDeferredClose("client")
          /\ exit' = "0"
     ELSE UNCHANGED <<log, closed, exit>>
  /\ UNCHANGED <<authType, kcsb, ret, created, file, currentTime,
                 ingestQuery, submitted, rowStream, rowIdx, ops>>

\* panic unwinding main: the deferred client.Close runs if it was
\* registered, then the process exits with status 2.
MainPanic ==
  /\ pc = "panic"
  /\ closed' = IF created.client THEN RunDeferredClose("client") ELSE closed
  /\ exit' = "2"
  /\ pc' = "fatal"
  /\ UNCHANGED <<authType, kcsb, ret, panicValue, created, file, currentTime,
                 ingestQuery, submitted, rowStream, rowIdx, log, ops>>

Next ==
  \/ MainGetKustoConnStr
  \/ MainGetKustoClient
  \/ IngestNew
  \/ IngestWrite
  \/ IngestFromFile
  \/ IngestWait
  \/ MainAfterIngest
  \/ GetDataQuery
  \/ GetDataTables
  \/ GetDataRow
  \/ MainAfterGetData
  \/ MainPanic

Spec == Init /\ [][Next]_vars

\* The program is a single sequential goroutine: whenever a step is possible
\* (every SDK call returns, every awaited signal resolves) it is taken.
FairSpec == Init /\ [][Next]_vars /\ WF_vars(Next)

TypeOK ==
  /\ pc \in {"main", "getKustoClient", "ingestData", "ingestWrite",
             "ingestFromFile", "ingestWait", "ingestReturned", "getData",
             "getDataTables", "getDataRows", "getDataReturned", "panic",
             "done", "fatal"}
  /\ authType \in AuthTypes
  /\ exit \in {"running", "0", "2"}
  /\ rowIdx \in 0..Len(rowStream)
  /\ \A h \in Handles : closed[h] \in 0..1
\* ---------------------------------------------------------- vocabulary
ConnStrOpNames == {"NewDeviceCodeCredential", "GetToken"}
ClientOpNames == {"azkustodata.New"}
IngestOpNames == {"azkustoingest.New", "os.WriteFile", "FromFile", "status.Wait"}
QueryOpNames == {"IterativeQuery", "Tables", "Rows"}
StageOpNames == [connStr |-> ConnStrOpNames, client |-> ClientOpNames,
                 ingest |-> IngestOpNames, query |-> QueryOpNames]
OpIdx == 1..Len(ops)
Called(name) == \E i \in OpIdx : ops[i].op = name
OpFailed(i) == ops[i].fail \in Causes
StageFailed(s) == ret[s] # Nil /\ ret[s] # Pending
DoneLogged == \E i \in 1..Len(log) : log[i] = Msg("Done.")
Terminated == pc \in {"done", "fatal"}

\* ------------------------------------------------------------------ C1
\* C1: the query is started only after ingestData has returned with a nil
\* error, having received a terminal status from status.Wait; no ingestion
\* operation happens once the query has started, and the ingestor is
\* already closed whenever a dataset exists.
C1_QueryAfterIngest ==
  /\ \A i \in OpIdx : ops[i].op \in QueryOpNames =>
       /\ ret.ingest = Nil
       /\ closed.ingestor = 1
       /\ \E j \in 1..(i-1) : ops[j] = Op("status.Wait", Ok)
       /\ \A j \in (i+1)..Len(ops) : ops[j].op \notin IngestOpNames
  /\ StageFailed("ingest") => ~Called("IterativeQuery") /\ ~created.dataset
  /\ created.dataset => created.ingestor /\ closed.ingestor = 1

C1_Witness ==
  /\ pc = "getDataRows"
  /\ rowIdx > 0
  /\ ret.ingest = Nil
  /\ Called("status.Wait")

\* ------------------------------------------------------------------ C2
\* C2: once a stage has failed no later stage is executed, "Done." is not
\* logged and the process does not exit with status 0; a terminated run
\* with a failed stage has exit status 2; "Done." is logged only when
\* every stage returned a nil error.
C2_FailureIsFatal ==
  /\ \A i \in 1..4 : \A j \in 1..4 :
       (i < j /\ StageFailed(Stages[i])) =>
          /\ ret[Stages[j]] = Pending
          /\ \A k \in OpIdx : ops[k].op \notin StageOpNames[Stages[j]]
  /\ \A i \in 1..4 : StageFailed(Stages[i]) =>
          /\ ~DoneLogged
          /\ exit # "0"
          /\ Terminated => (pc = "fatal" /\ exit = "2")
  /\ DoneLogged => (\A i \in 1..4 : ret[Stages[i]] = Nil) /\ exit = "0"

C2_Witness ==
  /\ pc = "fatal"
  /\ exit = "2"
  /\ StageFailed("query")
  /\ ret.ingest = Nil

\* ------------------------------------------------------------------ C3
\* C3: once ingestData has returned, its error is nil exactly when the
\* ingestor was constructed, FromFile accepted the submission and the
\* value received from status.Wait was nil; a failure of any of the three
\* gives a non-nil error.
C3_IngestErrorReported ==
  ret.ingest # Pending =>
    /\ ret.ingest = Nil <=>
         /\ \E i \in OpIdx : ops[i] = Op("azkustoingest.New", Ok)
         /\ \E i \in OpIdx : ops[i] = Op("FromFile", Ok)
         /\ \E i \in OpIdx : ops[i] = Op("status.Wait", Ok)
    /\ \A i \in OpIdx :
         (ops[i].op \in {"azkustoingest.New", "FromFile", "status.Wait"} /\ OpFailed(i))
            => ret.ingest # Nil

C3_Witness ==
  /\ ret.ingest # Pending
  /\ ret.ingest # Nil
  /\ \E i \in OpIdx : ops[i].op = "status.Wait" /\ OpFailed(i)

\* ------------------------------------------------------------------ C4
FirstRowError ==
  IF \E i \in 1..Len(rowStream) : rowStream[i].err # Ok
  THEN CHOOSE i \in 1..Len(rowStream) :
         /\ rowStream[i].err # Ok
         /\ \A j \in 1..(i-1) : rowStream[j].err = Ok
  ELSE 0
LoggedRows == SelectSeq(log, LAMBDA e : e.t = "row")

\* C4: the loop never receives a row beyond the first failing row; the
\* rows logged are exactly the rows received before it, in delivery order;
\* and once getData has returned from a stream with a failing row it has
\* stopped at that row and returned that row's error.
C4_RowErrorStops ==
  /\ FirstRowError > 0 => rowIdx <= FirstRowError
  /\ LET n == IF FirstRowError > 0 /\ rowIdx = FirstRowError
              THEN rowIdx - 1 ELSE rowIdx
     IN /\ Len(LoggedRows) = n
        /\ \A i \in 1..n : LoggedRows[i] = RowLine(rowStream[i].row)
  /\ (FirstRowError > 0 /\ ret.query # Pending) =>
       /\ rowIdx = FirstRowError
       /\ ret.query = Errorf("error getting row result", rowStream[FirstRowError].err)

C4_Witness ==
  /\ ret.query # Pending
  /\ FirstRowError > 1
  /\ FirstRowError < Len(rowStream)
  /\ Len(LoggedRows) = FirstRowError - 1

\* ------------------------------------------------------------------ C5
InIngestData == pc \in {"ingestWrite", "ingestFromFile", "ingestWait"}
InGetData == pc \in {"getDataTables", "getDataRows"}

\* C5: an ingestor or dataset that was never created is never closed; one
\* that was created stays open while its function runs and has been closed
\* exactly once when the function has returned, whatever the exit path.
C5_ReleasedOnce ==
  /\ \A h \in {"ingestor", "dataset"} :
       /\ closed[h] <= 1
       /\ ~created[h] => closed[h] = 0
  /\ InIngestData => created.ingestor /\ closed.ingestor = 0
  /\ InGetData => created.dataset /\ closed.dataset = 0
  /\ (created.ingestor /\ ~InIngestData) => closed.ingestor = 1
  /\ (created.dataset /\ ~InGetData) => closed.dataset = 1

C5_Witness ==
  /\ pc = "getDataReturned"
  /\ created.ingestor /\ closed.ingestor = 1
  /\ created.dataset /\ closed.dataset = 1
  /\ StageFailed("query")

\* ------------------------------------------------------------------ C6
ClientOrLater == ClientOpNames \cup IngestOpNames \cup QueryOpNames

\* C6: a client is constructed only when getKustoConnStr returned a builder
\* and a nil error; when a credential or token call failed, or the auth
\* type is neither BearerToken nor Interactive, no client is constructed
\* and no ingest or query operation is issued.
C6_ClientsNeedConnStr ==
  /\ \A i \in OpIdx : ops[i].op \in ClientOrLater =>
       /\ ret.connStr = Nil
       /\ kcsb # "nil"
  /\ ( \/ authType \notin {BearerToken, Interactive}
       \/ \E i \in OpIdx : ops[i].op \in ConnStrOpNames /\ OpFailed(i) )
     => /\ \A i \in OpIdx : ops[i].op \notin ClientOrLater
        /\ \A h \in Handles : ~created[h]
        /\ pc \in {"main", "panic", "fatal"}

C6_Witness ==
  /\ pc = "fatal"
  /\ StageFailed("connStr")
  /\ \E i \in OpIdx : ops[i].op = "GetToken" /\ OpFailed(i)
  /\ ~created.client
\* ------------------------------------------------------------------ C7
\* The stage (function called from main) an operation belongs to.
StageOf(name) ==
  CHOOSE s \in {"connStr", "client", "ingest", "query"} : name \in StageOpNames[s]

\* C7: a failed operation is the last operation of the run, and the
\* function it fails in returns an error that carries the failure's cause.
C7_AbortOnFirstError ==
  \A i \in OpIdx : OpFailed(i) =>
    /\ i = Len(ops)
    /\ ret[StageOf(ops[i].op)] # Pending =>
         ret[StageOf(ops[i].op)].cause = ops[i].fail

\* ------------------------------------------------------------------ C8
WriteSucceeded == \E i \in OpIdx : ops[i] = Op("os.WriteFile", Ok)

\* C8: whenever ingestData has returned after writing ingest.kql, the file
\* no longer exists.
C8_NoStagingResidue ==
  (ret.ingest # Pending /\ WriteSucceeded) => ~file.exists

\* ------------------------------------------------------------------ C9
Serialized == Called("os.WriteFile")
Fields == SplitComma(ingestQuery)

\* C9 as stated: the serialized content is exactly four comma-separated
\* values, the first being the UTC timestamp and nothing else.
C9_FourColumnPayload ==
  Serialized =>
    /\ Len(Fields) = 4
    /\ Fields[1] = FormatRFC3339(currentTime)

\* C9 as amended: the serialized content is the inline-ingest command text
\* followed by exactly three comma-separated values, the RFC3339 UTC time
\* taken at ingest time, Sql and Isgood; the content uploaded from the file
\* that was written is this content.
C9_ThreeValuesAfterCommand ==
  Serialized =>
    /\ currentTime.loc = "UTC"
    /\ Len(Fields) = 3
    /\ Fields[1] = <<IngestPrefix, ClockText["UTC"][currentTime.instant], "Z">>
    /\ Fields[2] = <<"Sql">>
    /\ Fields[3] = <<"Isgood">>
    /\ (WriteSucceeded /\ submitted # <<>>) => submitted = ingestQuery

C9_Witness ==
  /\ pc = "ingestWait"
  /\ WriteSucceeded
  /\ submitted = ingestQuery
  /\ Len(Fields) = 3

\* ----------------------------------------------------------------- C10
\* C10: every run eventually ends, either after logging "Done." with exit
\* status 0 or in the fatal state with exit status 2.
C10_Terminates ==
  <>( \/ (pc = "done" /\ exit = "0" /\ DoneLogged)
      \/ (pc = "fatal" /\ exit = "2" /\ ~DoneLogged) )

C10_Witness ==
  /\ pc = "fatal"
  /\ exit = "2"
  /\ panicValue = RuntimePanic
  /\ ops[Len(ops)] = Op("Tables", "closed")
====
